---- MODULE Spec2Model ----
(***************************************************************************)
(* A model of triagebot's command dispatch (parser/src/command.rs) and of  *)
(* the assignment handler (src/handlers/assign.rs).                        *)
(*                                                                         *)
(* Text is a sequence of one-character strings; every offset is a 0-based  *)
(* byte offset as in the Rust code, so the character at offset p of s is   *)
(* s[p+1] and the slice &s[p..] is Slice(s, p).                            *)
(*                                                                         *)
(* The tokenizer, the code-span index and the three command grammars are   *)
(* crates of the repository that are not among the source files; they are  *)
(* modelled from the specification (sections 4.1, 4.2 and 4.3).            *)
(***************************************************************************)
EXTENDS Integers, Sequences, FiniteSets, TLC

(***************************************************************************)
(* Bounds of the model.                                                    *)
(***************************************************************************)
\* The longest input, counted in pieces of Pieces.
MaxPieces == 5

(***************************************************************************)
(* Text helpers.                                                           *)
(***************************************************************************)
NoPos == -1

Min(S) == CHOOSE x \in S : \A y \in S : x <= y

\* &s[p..]
Slice(s, p) == SubSeq(s, p + 1, Len(s))

\* s[a..b] as text, a and b offsets
Text(s, a, b) == SubSeq(s, a + 1, b)

StartsWithAt(s, p, w) ==
    /\ p + Len(w) <= Len(s)
    /\ \A k \in 1..Len(w) : s[p + k] = w[k]

W_bot      == <<"b", "o", "t">>
W_claim    == <<"c", "l", "a", "i", "m">>
W_assign   == <<"a", "s", "s", "i", "g", "n">>
W_release  == <<"r", "e", "l", "e", "a", "s", "e">>
W_unassign == <<"u", "n", "a", "s", "s", "i", "g", "n">>
W_modify   == <<"m", "o", "d", "i", "f", "y">>
W_labels   == <<"l", "a", "b", "e", "l", "s", ":">>
W_triage   == <<"t", "r", "i", "a", "g", "e">>
W_high     == <<"h", "i", "g", "h">>
W_low      == <<"l", "o", "w">>

\* format!("@{}", bot)
Trigger(bot) == <<"@">> \o bot

\* The offset of the first occurrence of w in s at or after p, or NoPos.
FindFrom(s, w, p) ==
    LET hits == {q \in p..(Len(s) - Len(w)) :
                    s[q + 1] = w[1] /\ SubSeq(s, q + 1, q + Len(w)) = w}
    IN  IF hits = {} THEN NoPos ELSE Min(hits)

\* The offset of the last occurrence of w in s at or before p, or NoPos.
RECURSIVE FindBack(_, _, _)
FindBack(s, w, p) ==
    IF p < 0 THEN NoPos
    ELSE IF StartsWithAt(s, p, w) THEN p
    ELSE FindBack(s, w, p - 1)

\* A find of the last occurrence instead of the first (str::rfind).
find_last(input, bot) == FindBack(input, Trigger(bot), Len(input))

\* A find that answers the end of the text instead of nothing.
find_or_end(input, bot) ==
    IF FindFrom(input, Trigger(bot), 0) = NoPos THEN Len(input)
    ELSE FindFrom(input, Trigger(bot), 0)

\* str::find: the offset of the first occurrence of the trigger, or NoPos.
find_commmand_start(input, bot) == FindFrom(input, Trigger(bot), 0)

(***************************************************************************)
(* Tokenizer (specification 4.1).  A tokenizer is a position in a slice;   *)
(* next_token returns the token and the position after it.                 *)
(***************************************************************************)
WhiteSpace == {" ", "\n"}
QuoteChar  == "\""
EscapeChar == "\\"

\* The first offset at or after p that holds no whitespace, or Len(s).
RECURSIVE SkipWhitespace(_, _)
SkipWhitespace(s, p) ==
    IF p >= Len(s) THEN Len(s)
    ELSE IF s[p + 1] \notin WhiteSpace THEN p
    ELSE SkipWhitespace(s, p + 1)

\* The end of the maximal run of non-whitespace, non-quote characters at p.
RECURSIVE WordEnd(_, _)
WordEnd(s, p) ==
    IF p >= Len(s) THEN Len(s)
    ELSE IF s[p + 1] \in WhiteSpace \cup {QuoteChar} THEN p
    ELSE WordEnd(s, p + 1)

\* The offset of the unescaped quote closing a string whose text starts at
\* p, or NoPos when the input ends first.
RECURSIVE CloseQuote(_, _)
CloseQuote(s, p) ==
    IF p >= Len(s) THEN NoPos
    ELSE IF s[p + 1] = QuoteChar THEN p
    ELSE IF s[p + 1] = EscapeChar THEN CloseQuote(s, p + 2)
    ELSE CloseQuote(s, p + 1)

next_token(s, p) ==
    LET q == SkipWhitespace(s, p)
    IN  IF q >= Len(s)
        THEN [kind |-> "End", text |-> <<>>, pos |-> Len(s)]
        ELSE IF s[q + 1] = QuoteChar
        THEN LET c == CloseQuote(s, q + 1)
             IN  IF c = NoPos
                 THEN [kind |-> "Error", text |-> <<>>, pos |-> Len(s)]
                 ELSE [kind |-> "Quote", text |-> Text(s, q + 1, c), pos |-> c + 1]
        ELSE LET e == WordEnd(s, q)
             IN  [kind |-> "Word", text |-> Text(s, q, e), pos |-> e]

IsWord(t, w) == t.kind = "Word" /\ t.text = w

(***************************************************************************)
(* Code-span index (specification 4.2): the half-open ranges of the input  *)
(* that are inline code spans or fenced code blocks.                       *)
(***************************************************************************)
\* The code marker (the backtick), written "~": a TLA+ string cannot hold a
\* backtick.
Tick == "~"

\* The length of the run of backticks that starts at offset p.
RunLen(s, p) ==
    LET stops == {q \in p..(Len(s) - 1) : s[q + 1] # Tick}
    IN  (IF stops = {} THEN Len(s) ELSE Min(stops)) - p

IsRunStart(s, p) ==
    /\ p < Len(s)
    /\ s[p + 1] = Tick
    /\ p = 0 \/ s[p] # Tick

\* The offset just after the line that holds offset p (its newline excluded).
LineEnd(s, p) ==
    LET nls == {q \in p..(Len(s) - 1) : s[q + 1] = "\n"}
    IN  IF nls = {} THEN Len(s) ELSE Min(nls)

\* Offset p is where the trimmed content of its line begins.
AtLineStart(s, p) ==
    \A q \in 0..(p - 1) :
        s[q + 1] = " " \/ \E r \in q..(p - 1) : s[r + 1] = "\n"

\* A line whose trimmed content begins with a run of at least three markers.
IsFenceOpen(s, p) == IsRunStart(s, p) /\ AtLineStart(s, p) /\ RunLen(s, p) >= 3

\* The end of the fenced block opened at p by a run of n markers: the end of
\* the first later line that begins with a run at least as long, or the end
\* of the input when the fence is never closed.
FenceEnd(s, p, n) ==
    LET closers == {q \in (LineEnd(s, p) + 1)..(Len(s) - 1) :
                        IsFenceOpen(s, q) /\ RunLen(s, q) >= n}
    IN  IF closers = {} THEN Len(s) ELSE LineEnd(s, Min(closers))

\* The end of the inline span opened at p by a run of n markers: just after
\* the next run of exactly n markers, or NoPos when there is none.
InlineEnd(s, p, n) ==
    LET closers == {q \in (p + n)..(Len(s) - 1) :
                        IsRunStart(s, q) /\ RunLen(s, q) = n}
    IN  IF closers = {} THEN NoPos ELSE Min(closers) + n

RECURSIVE CodeSpans(_, _)
CodeSpans(s, p) ==
    IF p >= Len(s) THEN {}
    ELSE IF s[p + 1] # Tick THEN CodeSpans(s, p + 1)
    ELSE LET n == RunLen(s, p)
         IN  IF IsFenceOpen(s, p)
             THEN LET e == FenceEnd(s, p, n)
                  IN  {<<p, e>>} \cup CodeSpans(s, e)
             ELSE LET e == InlineEnd(s, p, n)
                  IN  IF e = NoPos THEN CodeSpans(s, p + n)
                      ELSE {<<p, e>>} \cup CodeSpans(s, e)

\* ColorCodeBlocks::new(input)
ColorCodeBlocks_new(input) == CodeSpans(input, 0)

\* ColorCodeBlocks::overlaps_code(a..b).is_some()
overlaps_code(code, a, b) ==
    \E sp \in code : sp[1] < b /\ a < sp[2]

(***************************************************************************)
(* Command grammars (specification 4.3).  A grammar is run on a tokenizer  *)
(* at position p of slice s and answers Decline, Match or Error together   *)
(* with the position it ended at.                                          *)
(***************************************************************************)
Outcome(o, c, a, p) == [outcome |-> o, cmd |-> c, arg |-> a, pos |-> p]

Decline(p) == Outcome("Decline", "", <<>>, p)

\* A user handle: "@" followed by at least one character.
IsUserMention(t) == t.kind = "Word" /\ Len(t.text) > 1 /\ t.text[1] = "@"

\* assign::AssignCommand::parse: claim | release | unassign | assign @user
AssignParse(s, p) ==
    LET t1 == next_token(s, p)
        t2 == next_token(s, t1.pos)
    IN  IF IsWord(t1, W_claim) THEN Outcome("Match", "Own", <<>>, t1.pos)
        ELSE IF IsWord(t1, W_release) \/ IsWord(t1, W_unassign)
        THEN Outcome("Match", "Release", <<>>, t1.pos)
        ELSE IF IsWord(t1, W_assign)
        THEN IF IsUserMention(t2)
             THEN Outcome("Match", "User", Tail(t2.text), t2.pos)
             ELSE Outcome("Error", "", <<>>, t2.pos)
        ELSE Decline(p)

IsLabelDelta(t) == t.kind = "Word" /\ Len(t.text) > 1 /\ t.text[1] \in {"+", "-"}

EndsCommand(t) == t.text[Len(t.text)] = "."

\* The label deltas of a relabel command: words +label or -label, the last
\* one closed by a full stop.
RECURSIVE RelabelDeltas(_, _)
RelabelDeltas(s, p) ==
    LET t == next_token(s, p)
    IN  IF ~IsLabelDelta(t) THEN Outcome("Error", "", <<>>, t.pos)
        ELSE IF EndsCommand(t) THEN Outcome("Match", "Relabel", <<>>, t.pos)
        ELSE RelabelDeltas(s, t.pos)

\* relabel::RelabelCommand::parse: modify labels: +a -b.
RelabelParse(s, p) ==
    LET t1 == next_token(s, p)
        t2 == next_token(s, t1.pos)
    IN  IF ~IsWord(t1, W_modify) THEN Decline(p)
        ELSE IF ~IsWord(t2, W_labels) THEN Outcome("Error", "", <<>>, t2.pos)
        ELSE RelabelDeltas(s, t2.pos)

\* The keyword followed by a priority.
PriorityAfter(s, t1) ==
    LET t2 == next_token(s, t1.pos)
    IN  IF IsWord(t2, W_high) \/ IsWord(t2, W_low)
        THEN Outcome("Match", "Triage", t2.text, t2.pos)
        ELSE Outcome("Error", "", <<>>, t2.pos)

\* triage::TriageCommand::parse: triage high | triage low
TriageParse(s, p) ==
    LET t1 == next_token(s, p)
    IN  IF IsWord(t1, W_triage) THEN PriorityAfter(s, t1) ELSE Decline(p)

\* A grammar whose leading keywords overlap the assignment grammar's: it
\* also answers to "assign" (the exclusivity set-up of specification 8).
OverlapParse(s, p) ==
    LET t1 == next_token(s, p)
    IN  IF IsWord(t1, W_triage) \/ IsWord(t1, W_assign)
        THEN PriorityAfter(s, t1)
        ELSE Decline(p)

(***************************************************************************)
(* The dispatch engine: Input and Input::parse_command.                    *)
(***************************************************************************)
\* Command<'a>: tag None, Relabel, Assign or Triage; ok tells Ok from Err.
Command(tag, ok, cmd, arg) == [tag |-> tag, ok |-> ok, cmd |-> cmd, arg |-> arg]

CommandNone == Command("None", TRUE, "", <<>>)

\* What a call that panics hands back: nothing.
Unwound == Command("Panic", FALSE, "", <<>>)

\* Command::is_ok
is_ok(c) == c.ok

\* Command::is_none
is_none(c) == c.tag = "None"

\* The parse function registered under a name and the Command variant its
\* result is wrapped in (the cmd and transform arguments of attempt_parse).
GrammarParse(g, s, p) ==
    CASE g = "Relabel" -> RelabelParse(s, p)
      [] g = "Assign"  -> AssignParse(s, p)
      [] g = "Triage"  -> TriageParse(s, p)
      [] g = "Overlap" -> OverlapParse(s, p)

GrammarTag(g) == IF g = "Overlap" THEN "Triage" ELSE g

\* The grammars parse_command registers, in the order it attempts them.
Registered == <<"Relabel", "Assign", "Triage">>

\* The same with the third grammar replaced by one that shares a keyword
\* with the assignment grammar.
RegisteredOverlapping == <<"Relabel", "Assign", "Overlap">>

\* attempt_parse: run the grammar on a clone of the original tokenizer
\* (slice s, position p) and push its tokenizer and command unless it
\* declined.
attempt_parse(s, p, success, g) ==
    LET res == GrammarParse(g, s, p)
    IN  IF res.outcome = "Decline" THEN success
        ELSE Append(success,
                    [tok |-> res.pos,
                     c   |-> Command(GrammarTag(g), res.outcome = "Match",
                                     res.cmd, res.arg)])

\* Attempts on one shared tokenizer: a grammar starts where the claim before
\* it stopped.
RECURSIVE AttemptAll_shared(_, _, _, _, _)
AttemptAll_shared(gs, i, s, p, success) ==
    IF i > Len(gs) THEN success
    ELSE LET next == attempt_parse(s, p, success, gs[i])
         IN  AttemptAll_shared(gs, i + 1, s,
                               IF next = success THEN p ELSE next[Len(next)].tok,
                               next)

\* The attempts of lines 76-93, each on a clone of the original tokenizer.
RECURSIVE AttemptAll(_, _, _, _, _)
AttemptAll(gs, i, s, p, success) ==
    IF i > Len(gs) THEN success
    ELSE AttemptAll(gs, i + 1, s, p, attempt_parse(s, p, success, gs[i]))

\* What one call of parse_command does: the cursor it leaves, what it
\* returns (ret) or how it panics (panic), and what it saw on the way.
CallResult(before, start, cursor, tokpos, success, incode, panic, ret) ==
    [before  |-> before,   \* self.parsed on entry
     start   |-> start,    \* what find_commmand_start answered
     parsed  |-> cursor,   \* self.parsed on exit
     tokpos  |-> tokpos,   \* tok.position() after the trigger was lexed
     success |-> success,  \* the success vector
     incode  |-> incode,   \* whether overlaps_code answered Some
     panic   |-> panic,    \* "", "assert" or "ambiguous"
     ret     |-> ret]

\* An Advance that sets the cursor to the tokenizer's position instead of
\* adding it.
Advance_absolute(at, top) == IF top.c.ok THEN top.tok ELSE at

\* An Advance that moves the cursor whether or not the command is Ok.
Advance_always(at, top) == at + top.tok

\* An Advance that takes the tokenizer's position for an offset in the
\* whole text and adds the trigger's offset once more.
Advance_twice(at, top) == IF top.c.ok THEN at + at + top.tok ELSE at

\* The cursor after a claimed command: it moves only when the command is Ok.
Advance(at, top) == IF is_ok(top.c) THEN at + top.tok ELSE at

\* A Resolve without the check that one grammar alone claimed: the last wins.
Resolve_last_wins(before, start, at, tokpos, success, code) ==
    IF overlaps_code(code, at, at + tokpos)
    THEN CallResult(before, start, at, tokpos, success, TRUE, "", CommandNone)
    ELSE IF success = <<>>
    THEN CallResult(before, start, at, tokpos, success, FALSE, "", CommandNone)
    ELSE LET top == success[Len(success)]
         IN  CallResult(before, start, Advance(at, top), tokpos, success,
                        FALSE, "", top.c)

\* A Resolve that looks up the code spans before it counts the claims.
Resolve_code_first(before, start, at, tokpos, success, code) ==
    IF overlaps_code(code, at, at + tokpos)
    THEN CallResult(before, start, at, tokpos, success, TRUE, "", CommandNone)
    ELSE IF Len(success) > 1
    THEN CallResult(before, start, at, tokpos, success, FALSE, "ambiguous", Unwound)
    ELSE IF success = <<>>
    THEN CallResult(before, start, at, tokpos, success, FALSE, "", CommandNone)
    ELSE LET top == success[Len(success)]
         IN  CallResult(before, start, Advance(at, top), tokpos, success,
                        FALSE, "", top.c)

\* The tail of parse_command, once the trigger at offset at was lexed.
Resolve(before, start, at, tokpos, success, code) ==
    IF Len(success) > 1
    THEN CallResult(before, start, at, tokpos, success, FALSE, "ambiguous", Unwound)
    ELSE IF overlaps_code(code, at, at + tokpos)
    THEN CallResult(before, start, at, tokpos, success, TRUE, "", CommandNone)
    ELSE IF success = <<>>
    THEN CallResult(before, start, at, tokpos, success, FALSE, "", CommandNone)
    ELSE LET top == success[Len(success)]
         IN  CallResult(before, start, Advance(at, top), tokpos, success,
                        FALSE, "", top.c)

\* A SkipToTrigger that sets the cursor to the offset in the slice.
SkipToTrigger_reset(parsed, start) == start

\* A SkipToTrigger that leaves the cursor where it was.
SkipToTrigger_stay(parsed, start) == parsed

\* The cursor after the trigger was found at offset start of the slice.
SkipToTrigger(parsed, start) == parsed + start

\* A parse_command whose tokenizer starts at the cursor, not at the trigger.
parse_command_lex_from_cursor(input, parsed, code, bot, gs) ==
    LET start == find_commmand_start(Slice(input, parsed), bot)
        at    == SkipToTrigger(parsed, start)
        s     == Slice(input, parsed)
        t     == next_token(s, 0)
    IN  IF start = NoPos
        THEN CallResult(parsed, NoPos, parsed, 0, <<>>, FALSE, "", CommandNone)
        ELSE IF ~IsWord(t, Trigger(bot))
        THEN CallResult(parsed, start, at, t.pos, <<>>, FALSE, "assert", Unwound)
        ELSE Resolve(parsed, start, at, t.pos,
                     AttemptAll(gs, 1, s, t.pos, <<>>), code)

\* Input::parse_command
parse_command(input, parsed, code, bot, gs) ==
    LET start == find_commmand_start(Slice(input, parsed), bot)
        at    == SkipToTrigger(parsed, start)
        s     == Slice(input, at)
        t     == next_token(s, 0)
    IN  IF start = NoPos
        THEN CallResult(parsed, NoPos, parsed, 0, <<>>, FALSE, "", CommandNone)
        ELSE IF ~IsWord(t, Trigger(bot))
        THEN CallResult(parsed, start, at, t.pos, <<>>, FALSE, "assert", Unwound)
        ELSE Resolve(parsed, start, at, t.pos,
                     AttemptAll(gs, 1, s, t.pos, <<>>), code)

(***************************************************************************)
(* The inputs of the model: texts put together from at most MaxPieces      *)
(* pieces.                                                                 *)
(***************************************************************************)
P_trigger  == Trigger(W_bot)
P_newline  == <<"\n">>
P_assign   == <<" ">> \o W_assign
P_user     == P_assign \o <<" ", "@", "u">>
P_tick     == <<Tick>>
P_quote    == <<QuoteChar>>
P_relabel  == <<" ">> \o W_modify \o <<" ">> \o W_labels \o <<" ", "+", "b", ".">>

Pieces == {P_trigger, P_newline, P_assign, P_user, P_tick, P_quote, P_relabel}

RECURSIVE Flatten(_)
Flatten(ps) == IF ps = <<>> THEN <<>> ELSE Head(ps) \o Flatten(Tail(ps))

Inputs == {Flatten(ps) : ps \in UNION {[1..n -> Pieces] : n \in 0..MaxPieces}}

(***************************************************************************)
(* The assignment handler: AssignmentHandler::handle_input.  The GitHub    *)
(* calls are the environment's: each may fail, as drawn in env.            *)
(***************************************************************************)
Users == {"alice", "bob", "carol"}

\* ctx.username
BotUser == "bot"

\* The users is_team_member answers Ok(true) for.
Team == {"alice"}

\* The logins GitHub accepts as assignees; any other is an InvalidAssignee.
Assignable == {"alice", "bob", BotUser}

None == "None"

AssignCommands ==
    {[type |-> "Own", username |-> None], [type |-> "Release", username |-> None]}
    \cup {[type |-> "User", username |-> u] : u \in Users}

\* What the environment answers to the calls of one handle_input: the team
\* check, and whether each call to GitHub gets through.
Envs ==
    [team : {"Ok(true)", "Ok(false)", "Err"},
     remove : BOOLEAN, apply1 : BOOLEAN, set1 : BOOLEAN, set2 : BOOLEAN,
     apply2 : BOOLEAN]

EnvFor(commenter) ==
    {env \in Envs : (env.team = "Ok(true)") => commenter \in Team}

\* event.comment.user.is_team_member(..): Err and Ok(false) both count as no.
is_team_member(env) == ~(env.team \in {"Err", "Ok(false)"})

\* The issue as the handler sees and leaves it.
Issue(as, d, m) == [assignees |-> as, data |-> d, message |-> m]

\* What a call, or the whole handler, leaves: the issue, the result ("Ok" or
\* the error) and the calls made to GitHub with the answer each got.
Handled(issue, ret, calls) == [issue |-> issue, ret |-> ret, calls |-> calls]

Call(op, arg, ret) == [op |-> op, arg |-> arg, ret |-> ret]

\* Issue::set_assignee
set_assignee(issue, user, through) ==
    IF ~through THEN Handled(issue, "Http", <<Call("set_assignee", user, "Http")>>)
    ELSE IF user \notin Assignable
    THEN Handled(issue, "InvalidAssignee",
                 <<Call("set_assignee", user, "InvalidAssignee")>>)
    ELSE Handled(Issue({user}, issue.data, issue.message), "Ok",
                 <<Call("set_assignee", user, "Ok")>>)

\* Issue::remove_assignees
remove_assignees(issue, through) ==
    IF ~through THEN Handled(issue, "Http", <<Call("remove_assignees", None, "Http")>>)
    ELSE Handled(Issue({}, issue.data, issue.message), "Ok",
                 <<Call("remove_assignees", None, "Ok")>>)

\* EditIssueBody::apply(text, data)
apply(issue, text, d, through) ==
    IF ~through THEN Handled(issue, "Http", <<Call("apply", d, "Http")>>)
    ELSE Handled(Issue(issue.assignees, d, text), "Ok", <<Call("apply", d, "Ok")>>)

\* The second of two steps, run when the first answered Ok (the ? operator).
Then(first, second) ==
    IF first.ret # "Ok" THEN first
    ELSE Handled(second.issue, second.ret, first.calls \o second.calls)

Bail(issue, msg) == Handled(issue, msg, <<>>)

\* The User arm of the match on cmd: whether the handler bails.
UserArmBails(team_member, username, login) ==
    team_member /\ username # login

\* A Release arm that lets any commenter release.
ReleaseArm_anyone(issue, login, team_member, env) ==
    IF issue.data = None
    THEN Bail(issue, "Cannot release unassigned issue")
    ELSE LET r == remove_assignees(issue, env.remove)
         IN  Then(r, apply(r.issue, "", None, env.apply1))

\* The Release arm of the match on cmd.
ReleaseArm(issue, login, team_member, env) ==
    IF issue.data = None
    THEN Bail(issue, "Cannot release unassigned issue")
    ELSE IF issue.data = login \/ team_member
    THEN LET r == remove_assignees(issue, env.remove)
         IN  Then(r, apply(r.issue, "", None, env.apply1))
    ELSE Bail(issue, "Cannot release another user's assignment")

\* The text the handler writes when the bot stands in for to_assign.
AssignedMessage(to_assign) == <<"This issue has been assigned to", to_assign>>

\* An InvalidAssignee arm that writes the message and the data but does not
\* assign the bot.
FakeAssign_without_bot(issue, to_assign, env) ==
    apply(issue, AssignedMessage(to_assign), to_assign, env.apply2)

\* The InvalidAssignee arm: the bot assigns itself and says who claimed.
FakeAssign(issue, to_assign, env) ==
    LET s2 == set_assignee(issue, BotUser, env.set2)
        s2c == IF s2.ret = "Ok" THEN s2
               ELSE Handled(s2.issue, "self-assignment failed", s2.calls)
    IN  Then(s2c, apply(s2.issue, AssignedMessage(to_assign), to_assign, env.apply2))

\* The tail of handle_input: record the data, then assign to_assign, or the
\* bot in its place when GitHub refuses to_assign.
AssignTail(issue, to_assign, env) ==
    LET a1 == apply(issue, "", to_assign, env.apply1)
        s1 == set_assignee(a1.issue, to_assign, env.set1)
        f  == FakeAssign(s1.issue, to_assign, env)
    IN  Then(a1, IF s1.ret = "InvalidAssignee"
                 THEN Handled(f.issue, f.ret, s1.calls \o f.calls)
                 ELSE s1)

\* Result<Option<AssignCommand>, Error> of parse_input, or the panic that
\* unwinds through it, with the one call of parse_command it made.
Parsed(kind, cmd, call) == [kind |-> kind, cmd |-> cmd, call |-> call]

NoCommand == [type |-> "none", username |-> None]

NotParsed == [kind |-> "NotParsed", cmd |-> NoCommand]

\* The match on the result of parse_command.
MatchCommand(r) ==
    IF r.panic # "" THEN Parsed("Panic", NoCommand, r)
    ELSE IF r.ret.tag = "Assign" /\ r.ret.ok
    THEN Parsed("Ok(Some)", [type |-> r.ret.cmd, username |-> r.ret.arg], r)
    ELSE IF r.ret.tag = "Assign"
    THEN Parsed("Err", NoCommand, r)
    ELSE Parsed("Ok(None)", NoCommand, r)

\* A parse_input that calls parse_command again when the first call did not
\* come back with an assign command.
parse_input_again(body, bot, gs) ==
    LET code == ColorCodeBlocks_new(body)
        r1   == parse_command(body, 0, code, bot, gs)
    IN  IF r1.panic # "" \/ r1.ret.tag = "Assign" THEN MatchCommand(r1)
        ELSE MatchCommand(parse_command(body, r1.parsed, code, bot, gs))

\* AssignmentHandler::parse_input for an issue comment with the given body.
parse_input(body, bot, gs) ==
    MatchCommand(parse_command(body, 0, ColorCodeBlocks_new(body), bot, gs))

\* AssignmentHandler::handle_input for an issue comment by login.
handle_input(issue, cmd, login, env) ==
    LET team_member == is_team_member(env)
    IN  CASE cmd.type = "Own" -> AssignTail(issue, login, env)
          [] cmd.type = "User" ->
                IF UserArmBails(team_member, cmd.username, login)
                THEN Bail(issue, "Only Rust team members can assign other users")
                ELSE AssignTail(issue, cmd.username, env)
          [] cmd.type = "Release" -> ReleaseArm(issue, login, team_member, env)

(***************************************************************************)
(* State.                                                                  *)
(***************************************************************************)
VARIABLES
    all,        \* Input.all: the text
    parsed,     \* Input.parsed: the scan cursor
    code,       \* Input.code: the code-span index of the text
    grammars,   \* the grammars parse_command attempts
    status,     \* "ready", or "panicked" once a call has panicked
    last,       \* the CallResult of the latest call, NoCall before the first
    returned,   \* the commands returned Ok so far, each with its trigger offset
    issue,      \* the issue: its assignees, tracked AssignData.user, message
    handled,    \* the latest handle_input: command, commenter, calls, result
    parsed_input \* what the latest parse_input answered, NotParsed before

vars == <<all, parsed, code, grammars, status, last, returned, issue, handled,
          parsed_input>>

parserVars == <<all, parsed, code, grammars, status, last, returned>>

handlerVars == <<issue, handled, parsed_input>>

Bot == W_bot

NoCall == CallResult(0, NoPos, 0, 0, <<>>, FALSE, "none", CommandNone)

\* Input::new
InputNew(input, gs) ==
    /\ all = input
    /\ parsed = 0
    /\ code = ColorCodeBlocks_new(input)
    /\ grammars = gs
    /\ status = "ready"
    /\ last = NoCall
    /\ returned = <<>>

NoIssue == Issue({}, None, "")

NotHandled == [cmd |-> [type |-> "none", username |-> None], login |-> None,
               team_member |-> FALSE, before |-> NoIssue, calls |-> <<>>,
               ret |-> None]

\* An issue nobody is assigned to and no comment handled yet.
IssueNew ==
    /\ issue = NoIssue
    /\ handled = NotHandled
    /\ parsed_input = NotParsed

Init == IssueNew /\ \E input \in Inputs : InputNew(input, Registered)

InitOverlap ==
    /\ IssueNew
    /\ \E input \in Inputs : InputNew(input, RegisteredOverlapping)

InitAssign == IssueNew /\ InputNew(<<>>, Registered)

\* One call of Input::parse_command on the session.
ParseCommand ==
    /\ status = "ready"
    /\ LET r == parse_command(all, parsed, code, Bot, grammars)
       IN  /\ parsed' = r.parsed
           /\ last' = r
           /\ status' = IF r.panic = "" THEN "ready" ELSE "panicked"
           /\ returned' = IF r.panic = "" /\ ~is_none(r.ret) /\ is_ok(r.ret)
                          THEN Append(returned, [at |-> r.before + r.start, c |-> r.ret])
                          ELSE returned
    /\ UNCHANGED <<all, code, grammars>>
    /\ UNCHANGED handlerVars

\* One issue comment carrying an assign command, handled by handle_input.
HandleInput ==
    /\ \E login \in Users, cmd \in AssignCommands :
         \E env \in EnvFor(login) :
            LET r == handle_input(issue, cmd, login, env)
            IN  /\ issue' = r.issue
                /\ handled' = [cmd |-> cmd, login |-> login,
                               team_member |-> is_team_member(env),
                               before |-> issue, calls |-> r.calls,
                               ret |-> r.ret]
    /\ parsed_input' = parsed_input
    /\ UNCHANGED parserVars

\* One issue comment, whose body is the text, looked at by parse_input: the
\* session it opens is the one of the state.
ParseInput ==
    /\ LET r == parse_input(all, Bot, grammars)
       IN  /\ parsed_input' = [kind |-> r.kind, cmd |-> r.cmd]
           /\ last' = r.call
           /\ parsed' = r.call.parsed
           /\ status' = IF r.call.panic = "" THEN "ready" ELSE "panicked"
    /\ UNCHANGED <<all, code, grammars, returned, issue, handled>>

Next == ParseCommand

NextComment == ParseInput

NextAssign == HandleInput

\* A parse session over one text.
Spec == Init /\ [][Next]_vars

\* The same with a grammar set that holds overlapping keywords.
SpecOverlap == InitOverlap /\ [][Next]_vars

\* The comments on one issue, handled one after the other.
SpecAssign == InitAssign /\ [][NextAssign]_vars

\* One comment, looked at by the assignment handler's parse_input.
SpecComment == Init /\ [][NextComment]_vars

(***************************************************************************)
(* Vocabulary of the properties.  Everything here is computed from the     *)
(* text, not taken from what parse_command reported.                       *)
(***************************************************************************)
\* A call has been made.
Called == last.panic # "none"

TriggerLen == Len(Trigger(Bot))

\* The trigger occurs at offset p of the text.
TriggerAt(p) == StartsWithAt(all, p, Trigger(Bot))

\* The first trigger occurrence at or after offset p, NoPos when none.
FirstTriggerFrom(p) == FindFrom(all, Trigger(Bot), p)

NoTriggerFrom(p) == FirstTriggerFrom(p) = NoPos

\* The word lexed at the occurrence is the trigger itself, not a longer word.
TriggerLexes(p) == IsWord(next_token(Slice(all, p), 0), Trigger(Bot))

\* What each grammar answers when run just after the trigger at p.
OutcomesAt(p) ==
    LET s == Slice(all, p)
    IN  [i \in DOMAIN grammars |-> GrammarParse(grammars[i], s, TriggerLen)]

\* The grammars that claim, among the outcomes os.
Claims(os) == {i \in DOMAIN os : os[i].outcome # "Decline"}

\* The command a grammar's outcome is returned as.
AsCommand(g, o) == Command(GrammarTag(g), o.outcome = "Match", o.cmd, o.arg)

\* The range a..b lies inside one code span; it meets some code span.
InsideCode(a, b) == \E sp \in code : sp[1] <= a /\ b <= sp[2]

MeetsCode(a, b) == \E sp \in code : sp[1] < b /\ a < sp[2]

IsMatch(c) == c.tag \in {"Relabel", "Assign", "Triage"} /\ c.ok

IsSyntaxError(c) == c.tag \in {"Relabel", "Assign", "Triage"} /\ ~c.ok

\* What the text holds for a call whose cursor stands at p: the first
\* trigger at or after p (at), whether it is lexed as the trigger, what the
\* grammars answer there (os), how many claim it, the outcome and the
\* command of the first that does (sole, cmd), and whether the trigger
\* meets a code span.
Facing(p) ==
    LET at == FirstTriggerFrom(p)
    IN  IF at = NoPos
        THEN [at |-> NoPos, lexes |-> FALSE, os |-> <<>>, claims |-> 0,
              sole |-> Decline(0), cmd |-> CommandNone, incode |-> FALSE]
        ELSE LET os == OutcomesAt(at)
                 cl == Claims(os)
                 i  == CHOOSE j \in cl : TRUE
             IN  [at     |-> at,
                  lexes  |-> TriggerLexes(at),
                  os     |-> os,
                  claims |-> Cardinality(cl),
                  sole   |-> IF cl = {} THEN Decline(0) ELSE os[i],
                  cmd    |-> IF cl = {} THEN CommandNone
                             ELSE AsCommand(grammars[i], os[i]),
                  incode |-> MeetsCode(at, at + TriggerLen)]

\* There is a trigger, it is lexed and exactly one grammar claims it.
SoleClaim(f) == f.at # NoPos /\ f.lexes /\ f.claims = 1

\* The same, with outcome Match and the trigger outside the code spans.
Matches(f) == SoleClaim(f) /\ f.sole.outcome = "Match" /\ ~f.incode

(***************************************************************************)
(* C1.  When the text from the cursor onward holds no occurrence of the    *)
(* trigger, parse_command returns Command::None and leaves the cursor      *)
(* where it was.                                                           *)
(***************************************************************************)
C1_NoTriggerNoCommand ==
    (Called /\ NoTriggerFrom(last.before)) =>
        /\ last.panic = ""
        /\ last.ret = CommandNone
        /\ parsed = last.before

\* A later call of a session, past a returned command, with text left that
\* holds no trigger.
C1_Witness ==
    /\ Called
    /\ NoTriggerFrom(last.before)
    /\ 0 < last.before
    /\ last.before < Len(all)

(***************************************************************************)
(* C2.  For a trigger occurrence that lies fully inside a code span,       *)
(* parse_command returns Command::None.  (Fails: a trigger followed at     *)
(* once by the closing marker is lexed as a longer word and the call       *)
(* panics on its assertion.)                                               *)
(***************************************************************************)
C2_TriggerInCodeIsNone ==
    Called =>
        LET at == FirstTriggerFrom(last.before)
        IN  (at # NoPos /\ InsideCode(at, at + TriggerLen)) =>
                /\ last.panic = ""
                /\ last.ret = CommandNone

(***************************************************************************)
(* C3.  When exactly one grammar claims a trigger occurrence outside any   *)
(* code span and its outcome is Match, parse_command returns that command  *)
(* and the cursor ends at the trigger's start plus the position the        *)
(* grammar's tokenizer ended at.                                           *)
(***************************************************************************)
C3_MatchAdvancesToCommandEnd ==
    Called =>
        LET f == Facing(last.before)
        IN  (SoleClaim(f) /\ f.sole.outcome = "Match" /\ ~f.incode) =>
                /\ last.panic = ""
                /\ last.ret = f.cmd
                /\ parsed = f.at + f.sole.pos

\* A command matched after some prose, with text left after it.
C3_Witness ==
    /\ Called
    /\ LET f == Facing(last.before)
       IN  /\ SoleClaim(f)
           /\ f.sole.outcome = "Match"
           /\ ~f.incode
           /\ 0 < f.at
    /\ parsed < Len(all)

(***************************************************************************)
(* C4 as claimed.  When the sole claiming grammar answers Syntax-Error,    *)
(* parse_command returns the error and the cursor is what it was before    *)
(* the call.                                                               *)
(***************************************************************************)
C4_ErrorLeavesCursorUntouched ==
    Called =>
        LET f == Facing(last.before)
        IN  (SoleClaim(f) /\ f.sole.outcome = "Error") =>
                /\ last.ret = f.cmd
                /\ parsed = last.before

(***************************************************************************)
(* C4 as amended.  When the sole claiming grammar answers Syntax-Error     *)
(* for a trigger outside any code span, parse_command returns the error    *)
(* and leaves the cursor at the start of that trigger: past the text that  *)
(* precedes the trigger, not past the trigger or the command.              *)
(***************************************************************************)
C4_ErrorLeavesCursorAtTrigger ==
    Called =>
        LET f == Facing(last.before)
        IN  (SoleClaim(f) /\ f.sole.outcome = "Error" /\ ~f.incode) =>
                /\ last.panic = ""
                /\ IsSyntaxError(last.ret)
                /\ last.ret = f.cmd
                /\ parsed = f.at

\* A malformed command after some prose: the cursor has moved to the trigger.
C4_Witness ==
    /\ Called
    /\ LET f == Facing(last.before)
       IN  /\ SoleClaim(f)
           /\ f.sole.outcome = "Error"
           /\ ~f.incode
           /\ last.before < f.at
           /\ f.sole.pos > TriggerLen

(***************************************************************************)
(* C5.  When more than one registered grammar claims the same trigger      *)
(* occurrence, parse_command panics: it returns none of the claimed        *)
(* outcomes and the cursor does not pass the trigger.                      *)
(***************************************************************************)
C5_AmbiguityAborts ==
    Called =>
        LET f == Facing(last.before)
        IN  (f.at # NoPos /\ f.lexes /\ f.claims > 1) =>
                /\ last.panic = "ambiguous"
                /\ status = "panicked"
                /\ last.ret = Unwound
                /\ parsed = f.at
                /\ \A k \in DOMAIN returned : returned[k].at # f.at

\* Two grammars claimed one occurrence, one with Match and one with Error.
C5_Witness ==
    /\ Called
    /\ LET f == Facing(last.before)
       IN  /\ f.at # NoPos
           /\ f.lexes
           /\ \E i, j \in Claims(f.os) :
                 /\ f.os[i].outcome = "Match"
                 /\ f.os[j].outcome = "Error"

(***************************************************************************)
(* C6 as claimed.  Over the calls of a session the cursor never decreases, *)
(* and a call whose result is not a Match leaves the cursor where it was.  *)
(***************************************************************************)
C6_CursorMovesOnlyOnMatch ==
    [][/\ parsed' >= parsed
       /\ (status' = "ready" /\ ~IsMatch(last'.ret)) => parsed' = parsed]_vars

\* Where a call that does not return a Match leaves a cursor that stood at p
\* and faced f: at the first trigger at or after p, or at p when there is
\* none.
TriggerOrStay(p, f) == IF f.at = NoPos THEN p ELSE f.at

(***************************************************************************)
(* C6 as amended.  Over the calls of a session the cursor never decreases. *)
(* A call that returns a Match moves it to the end of the matched command; *)
(* any other call moves it over the trigger-free text only: to the start   *)
(* of the first trigger at or after it, or not at all when there is none.  *)
(***************************************************************************)
C6_CursorStopsAtTrigger ==
    [][LET f == Facing(parsed)
       IN  /\ parsed' >= parsed
           /\ ~IsMatch(last'.ret) => parsed' = TriggerOrStay(parsed, f)
           /\ IsMatch(last'.ret) =>
                 /\ Matches(f)
                 /\ parsed' = f.at + f.sole.pos]_vars

\* After one command was returned, a call that returned no Match has moved
\* the cursor forward, to the next trigger.
C6_Witness ==
    /\ Called
    /\ returned # <<>>
    /\ ~IsMatch(last.ret)
    /\ last.panic = ""
    /\ last.before < parsed

(***************************************************************************)
(* C7.  A trigger occurrence whose claimed range (the trigger and the text *)
(* the claiming grammar consumed) overlaps a code span is never            *)
(* dispatched: parse_command returns Command::None.  (Fails: only the      *)
(* trigger's own range is looked up in the code-span index.)               *)
(***************************************************************************)
C7_ClaimedRangeInCodeIsNone ==
    Called =>
        LET f == Facing(last.before)
        IN  (SoleClaim(f) /\ MeetsCode(f.at, f.at + f.sole.pos)) =>
                /\ last.panic = ""
                /\ last.ret = CommandNone

(***************************************************************************)
(* C8.  The commands of a text.                                            *)
(***************************************************************************)
\* A well-formed command outside code starts at offset p.
WellFormedAt(p) ==
    /\ TriggerAt(p)
    /\ LET f == Facing(p)
       IN  /\ SoleClaim(f)
           /\ f.sole.outcome = "Match"
           /\ ~MeetsCode(p, p + f.sole.pos)

\* The commands from offset p on, up to the first trigger that does not
\* resolve to a Match.
RECURSIVE Extractable(_)
Extractable(p) ==
    LET f == Facing(p)
    IN  IF ~Matches(f) THEN <<>>
        ELSE <<[at |-> f.at, c |-> f.cmd]>> \o Extractable(f.at + f.sole.pos)

\* No further call changes anything: the latest call returned no Match.
Exhausted == Called /\ ~IsMatch(last.ret)

(***************************************************************************)
(* C8 as claimed.  Repeated calls extract every command: once a call       *)
(* returns something other than a Match (and so will every later call),    *)
(* every well-formed command outside code spans has been returned, in text *)
(* order, each once.                                                       *)
(***************************************************************************)
C8_EveryCommandExtracted ==
    /\ \A k, l \in DOMAIN returned : k < l => returned[k].at < returned[l].at
    /\ (Exhausted /\ last.panic = "") =>
          \A p \in 0..Len(all) :
              WellFormedAt(p) => \E k \in DOMAIN returned : returned[k].at = p

(***************************************************************************)
(* C8 as amended.  Repeated calls return, in text order and each once, the *)
(* well-formed commands that precede the first trigger occurrence that     *)
(* does not resolve to a Match (declined, malformed, inside code, or       *)
(* panicking); once a call returns no Match exactly those have been        *)
(* returned, and a command behind such a trigger is never returned.        *)
(***************************************************************************)
C8_ExtractsUpToFirstFailure ==
    /\ \A k, l \in DOMAIN returned : k < l => returned[k].at < returned[l].at
    /\ Called =>
          LET ex == Extractable(0)
          IN  /\ Len(returned) <= Len(ex)
              /\ \A k \in DOMAIN returned : returned[k] = ex[k]
              /\ Exhausted => returned = ex
    /\ ~Called => returned = <<>>

\* Two commands were returned and a third call found nothing more.
C8_Witness ==
    /\ Exhausted
    /\ last.panic = ""
    /\ Len(returned) = 2

(***************************************************************************)
(* C9.  The command on its own and the command among other text.           *)
(***************************************************************************)
\* Offset e is a token boundary: the end of the text, whitespace or a quote.
Boundary(e) == e = Len(all) \/ all[e + 1] \in WhiteSpace \cup {QuoteChar}

\* parse_command on the text from p to e taken as a whole input.
Alone(p, e) ==
    LET text == Text(all, p, e)
    IN  parse_command(text, 0, ColorCodeBlocks_new(text), Bot, grammars)

\* The call r on a text of length n found one well-formed command, the
\* whole of the text.
WellFormedAlone(r, n) == r.panic = "" /\ IsMatch(r.ret) /\ r.parsed = n

\* The ends e a command that starts at the trigger at offset at may have.
CommandEnds(at) == {e \in (at + TriggerLen)..Len(all) : Boundary(e)}

(***************************************************************************)
(* C9 as claimed.  Text outside the command never affects its result: a    *)
(* command that is well-formed on its own yields the same Match whatever   *)
(* text precedes the trigger or follows the command's end.                 *)
(***************************************************************************)
C9_SurroundingsNeverMatter ==
    Called =>
        LET at == FirstTriggerFrom(last.before)
        IN  at # NoPos =>
                \A e \in CommandEnds(at) :
                    LET r == Alone(at, e)
                    IN  WellFormedAlone(r, e - at) =>
                            /\ last.panic = ""
                            /\ last.ret = r.ret
                            /\ parsed = e

(***************************************************************************)
(* C9 as amended.  Text outside the command affects its result only by     *)
(* putting the trigger in a code span: a command that is well-formed on    *)
(* its own, and whose trigger meets no code span of the whole text, yields *)
(* the same Match whatever text, an unterminated quote included, precedes  *)
(* the trigger or follows the command's end.                               *)
(***************************************************************************)
C9_SurroundingsMatterOnlyAsCode ==
    Called =>
        LET at == FirstTriggerFrom(last.before)
        IN  (at # NoPos /\ ~MeetsCode(at, at + TriggerLen)) =>
                \A e \in CommandEnds(at) :
                    LET r == Alone(at, e)
                    IN  WellFormedAlone(r, e - at) =>
                            /\ last.panic = ""
                            /\ last.ret = r.ret
                            /\ parsed = e

\* A command matched between an unterminated quote before its trigger and
\* more text after its end.
C9_Witness ==
    /\ Called
    /\ IsMatch(last.ret)
    /\ LET at == FirstTriggerFrom(last.before)
       IN  /\ at # NoPos
           /\ ~MeetsCode(at, at + TriggerLen)
           /\ \E q \in last.before..(at - 1) : all[q + 1] = QuoteChar
           /\ \E e \in CommandEnds(at) :
                 e < Len(all) /\ WellFormedAlone(Alone(at, e), e - at)

(***************************************************************************)
(* C10.  Only team members may assign someone other than themselves: an    *)
(* assign of another user succeeds only for a commenter who is a team      *)
(* member, and for any other commenter it fails and changes nothing.       *)
(* (Fails: the test on is_team_member is inverted.)                        *)
(***************************************************************************)
C10_OnlyTeamAssignsOthers ==
    (/\ handled.cmd.type = "User"
     /\ handled.cmd.username # handled.login) =>
        /\ handled.ret = "Ok" => handled.team_member
        /\ ~handled.team_member =>
              /\ handled.ret # "Ok"
              /\ issue = handled.before

(***************************************************************************)
(* C11.  When assigning the target user fails with InvalidAssignee,        *)
(* handle_input assigns the bot itself and then writes to the top-level    *)
(* comment the tracked data user = target and the message that the issue   *)
(* has been assigned to the target; when both calls get through it returns *)
(* Ok with the bot as assignee.  Any other error of the assignment is      *)
(* returned to the caller and nothing more is called.                      *)
(***************************************************************************)
\* The user the handled command assigns: the commenter or the named user.
Target == IF handled.cmd.type = "Own" THEN handled.login ELSE handled.cmd.username

\* The handled comment got as far as assigning the target, with answer ret.
AssignedTarget(ret) ==
    /\ handled.cmd.type \in {"Own", "User"}
    /\ Len(handled.calls) >= 2
    /\ handled.calls[2] = Call("set_assignee", Target, ret)

C11_InvalidAssigneeFakeAssignsBot ==
    /\ AssignedTarget("InvalidAssignee") =>
          LET cs == handled.calls
          IN  /\ Len(cs) >= 3
              /\ cs[3].op = "set_assignee" /\ cs[3].arg = BotUser
              /\ cs[3].ret # "Ok" =>
                    /\ Len(cs) = 3
                    /\ handled.ret = "self-assignment failed"
              /\ cs[3].ret = "Ok" =>
                    /\ Len(cs) = 4
                    /\ cs[4].op = "apply" /\ cs[4].arg = Target
                    /\ handled.ret = cs[4].ret
                    /\ issue.assignees = {BotUser}
                    /\ cs[4].ret = "Ok" =>
                          /\ issue.data = Target
                          /\ issue.message = AssignedMessage(Target)
    /\ AssignedTarget("Http") =>
          /\ handled.ret = "Http"
          /\ Len(handled.calls) = 2

\* carol, whom GitHub does not accept as assignee, claimed the issue: the
\* bot stands in for her.
C11_Witness ==
    /\ AssignedTarget("InvalidAssignee")
    /\ handled.ret = "Ok"
    /\ issue.assignees = {BotUser}
    /\ issue.data = Target
    /\ issue.message = AssignedMessage(Target)

(***************************************************************************)
(* C12.  Lexing the trigger always succeeds: whenever the scan finds an    *)
(* occurrence of the trigger, the first token lexed at that offset is the  *)
(* trigger word itself and the assertion of parse_command never fails.     *)
(* (Fails: the scan is a substring search, so it also finds a trigger that *)
(* is the prefix of a longer word, and the assertion panics.)              *)
(***************************************************************************)
C12_TriggerAlwaysLexes ==
    Called =>
        LET at == FirstTriggerFrom(last.before)
        IN  at # NoPos =>
                /\ TriggerLexes(at)
                /\ last.panic # "assert"

(***************************************************************************)
(* C13.  After a call that finds a trigger and returns something other     *)
(* than a Match (the trigger is in a code span, every grammar declines, or *)
(* the sole claim is a Syntax-Error), the cursor is exactly at that        *)
(* trigger's start, and every later call finds the same trigger, returns   *)
(* the same result and leaves the cursor there: nothing more is returned   *)
(* and no later trigger is examined.                                       *)
(***************************************************************************)
\* The latest call found a trigger and returned, but not a Match.
StoppedAtTrigger ==
    /\ Called
    /\ last.panic = ""
    /\ ~NoTriggerFrom(last.before)
    /\ ~IsMatch(last.ret)

C13_StuckAtUnmatchedTrigger ==
    /\ [](StoppedAtTrigger => parsed = FirstTriggerFrom(last.before))
    /\ [][StoppedAtTrigger =>
            /\ parsed' = parsed
            /\ last'.before = parsed
            /\ FirstTriggerFrom(last'.before) = parsed
            /\ last'.panic = ""
            /\ last'.ret = last.ret
            /\ returned' = returned]_vars

\* A call repeated at a trigger after some prose that every grammar
\* declines, with a well-formed command behind it that is never returned.
C13_Witness ==
    /\ StoppedAtTrigger
    /\ returned = <<>>
    /\ 0 < parsed
    /\ last.before = parsed
    /\ FirstTriggerFrom(parsed) = parsed
    /\ \E p \in (parsed + 1)..Len(all) : WellFormedAt(p)

(***************************************************************************)
(* C14.  The ambiguity check precedes the code-span check: a trigger       *)
(* inside a code span that more than one grammar claims makes the call     *)
(* panic with the ambiguity violation instead of returning Command::None.  *)
(* Every grammar has been attempted by then, and the cursor passes the     *)
(* trigger only when the attempts left exactly one claim, a Match.         *)
(***************************************************************************)
C14_AmbiguityBeforeCodeCheck ==
    Called =>
        LET f == Facing(last.before)
        IN  (f.at # NoPos /\ f.lexes) =>
                /\ Len(last.success) = f.claims
                /\ (f.claims > 1 /\ f.incode) =>
                      /\ last.panic = "ambiguous"
                      /\ last.ret # CommandNone
                      /\ ~last.incode
                      /\ parsed = f.at
                /\ parsed > f.at =>
                      /\ f.claims = 1
                      /\ last.success[1].c = f.cmd
                      /\ IsMatch(f.cmd)

\* A trigger in an inline code span, claimed by two grammars: the call
\* panicked on the ambiguity.
C14_Witness ==
    /\ Called
    /\ last.panic = "ambiguous"
    /\ LET f == Facing(last.before)
       IN  /\ f.at # NoPos
           /\ f.lexes
           /\ f.claims = 2
           /\ InsideCode(f.at, f.at + TriggerLen)

(***************************************************************************)
(* C15.  Each grammar runs on its own clone of the tokenizer that stands   *)
(* just after the trigger, so the order of the attempts does not matter:   *)
(* for every order of the registered grammars the claims collected, the    *)
(* result (a command or a panic) and the cursor are the same.              *)
(***************************************************************************)
\* The orders the grammars gs can be attempted in.
Orders(gs) ==
    {[i \in DOMAIN gs |-> gs[f[i]]] :
        f \in {g \in [DOMAIN gs -> DOMAIN gs] :
                  \A i, j \in DOMAIN gs : i # j => g[i] # g[j]}}

\* The claims of a call, whatever order they were collected in.
ClaimSet(r) == {r.success[i] : i \in DOMAIN r.success}

C15_AttemptOrderIrrelevant ==
    Called =>
        \A gs \in Orders(grammars) :
            LET r == parse_command(all, last.before, code, Bot, gs)
            IN  /\ ClaimSet(r) = ClaimSet(last)
                /\ Len(r.success) = Len(last.success)
                /\ r.ret = last.ret
                /\ r.panic = last.panic
                /\ r.parsed = parsed

\* A call in which two grammars claimed, the first attempted with a Match
\* and the second with a Syntax-Error: picking by position would depend on
\* the order.
C15_Witness ==
    /\ Called
    /\ Len(last.success) = 2
    /\ last.success[1].c.ok
    /\ ~last.success[2].c.ok
    /\ last.success[1].c.tag # last.success[2].c.tag

(***************************************************************************)
(* C16.  Release succeeds only when the tracked data names a user and the  *)
(* commenter is that user or a team member; on success the assignees and   *)
(* the tracked user are cleared.  Releasing an unassigned issue, or        *)
(* another user's assignment as a non-member, returns an error and changes *)
(* nothing; so a Release right after a successful one fails with "Cannot   *)
(* release unassigned issue".                                              *)
(***************************************************************************)
Released == handled.cmd.type = "Release"

C16_ReleaseNeedsOwnerOrTeam ==
    /\ [](Released =>
            /\ handled.ret = "Ok" =>
                  /\ handled.before.data # None
                  /\ handled.before.data = handled.login \/ handled.team_member
                  /\ issue.assignees = {}
                  /\ issue.data = None
            /\ handled.before.data = None =>
                  /\ handled.ret = "Cannot release unassigned issue"
                  /\ issue = handled.before
            /\ (/\ handled.before.data \notin {None, handled.login}
                /\ ~handled.team_member) =>
                  /\ handled.ret = "Cannot release another user's assignment"
                  /\ issue = handled.before)
    /\ [][(Released /\ handled.ret = "Ok" /\ handled'.cmd.type = "Release") =>
            /\ handled'.ret = "Cannot release unassigned issue"
            /\ issue' = issue]_vars

\* A team member released another user's assignment.
C16_Witness ==
    /\ Released
    /\ handled.ret = "Ok"
    /\ handled.before.data \notin {None, handled.login}
    /\ handled.before.assignees # {}
    /\ issue = NoIssue

(***************************************************************************)
(* C17.  handle_input keeps the tracked data and the issue's assignee      *)
(* consistent across failures: whenever it returns an error, the tracked   *)
(* user is Some(u) exactly when the issue has an assignee standing for u   *)
(* (u itself, or the bot in its place).  (Fails: the data is written       *)
(* before the assignee is set, and the assignees are removed before the    *)
(* data is cleared, and an error in between is returned as it is.)         *)
(***************************************************************************)
\* The tracked user and the assignee of the issue i agree.
Consistent(i) ==
    IF i.data = None THEN i.assignees = {}
    ELSE i.assignees = {i.data} \/ i.assignees = {BotUser}

Failed == handled.ret \notin {"Ok", None}

C17_DataAndAssigneeAgreeOnError ==
    (Failed /\ Consistent(handled.before)) => Consistent(issue)

(***************************************************************************)
(* C18.  parse_input opens a fresh session on the comment and calls        *)
(* parse_command once: it returns the command iff the first trigger of the *)
(* comment resolves to an Assign Match, an error iff it resolves to an     *)
(* Assign Syntax-Error, and Ok(None) for Command::None and for any Relabel *)
(* or Triage result; an assign command behind another trigger is never     *)
(* returned.                                                               *)
(***************************************************************************)
WasParsed == parsed_input.kind # "NotParsed"

C18_ParseInputTakesFirstTriggerOnly ==
    WasParsed =>
        LET f == Facing(0)
        IN  /\ last.before = 0
            /\ parsed_input.kind = "Ok(Some)" <=>
                  (Matches(f) /\ f.cmd.tag = "Assign")
            /\ parsed_input.kind = "Ok(Some)" =>
                  /\ parsed_input.cmd = [type |-> f.cmd.cmd, username |-> f.cmd.arg]
                  /\ parsed = f.at + f.sole.pos
            /\ parsed_input.kind = "Err" <=>
                  /\ SoleClaim(f)
                  /\ f.sole.outcome = "Error"
                  /\ ~f.incode
                  /\ f.cmd.tag = "Assign"
            /\ (last.panic = "" /\ (f.at = NoPos \/ f.cmd.tag # "Assign" \/ f.incode)) =>
                  parsed_input.kind = "Ok(None)"
            /\ parsed_input.kind = "Panic" <=> last.panic # ""

\* A comment whose first trigger is a relabel command and whose second is a
\* well-formed assign command: parse_input answered Ok(None).
C18_Witness ==
    /\ WasParsed
    /\ parsed_input.kind = "Ok(None)"
    /\ IsMatch(last.ret)
    /\ last.ret.tag = "Relabel"
    /\ \E p \in parsed..Len(all) :
          WellFormedAt(p) /\ Facing(p).cmd.tag = "Assign"

(***************************************************************************)
(* C19.  In every state of a parse session 0 <= parsed <= length of the    *)
(* text, so the slice taken at the start of each call is in bounds; after  *)
(* a Match the trigger's start plus the grammar's end position does not    *)
(* exceed the length of the text.                                          *)
(***************************************************************************)
C19_CursorInBounds ==
    /\ 0 <= parsed
    /\ parsed <= Len(all)
    /\ 0 <= last.before
    /\ last.before <= parsed
    /\ (Called /\ IsMatch(last.ret)) =>
          LET f == Facing(last.before)
          IN  /\ f.at # NoPos
              /\ parsed = f.at + f.sole.pos
              /\ f.at + f.sole.pos <= Len(all)

\* A second command matched after some text, and it ends the text.
C19_Witness ==
    /\ Called
    /\ IsMatch(last.ret)
    /\ 0 < FirstTriggerFrom(last.before)
    /\ Len(returned) = 2
    /\ parsed = Len(all)

====
